---- MODULE Spec2Model ----
(***************************************************************************)
(* Model of src/app.py: the three-stage pipeline                           *)
(*   generate_presentation_slide_text  -> outline (or None)                *)
(*   generate_presentation_slide_images -> images (index -> bytes or None) *)
(*   create_presentation_file          -> document saved to a file        *)
(* driven by the __main__ block.                                           *)
(*                                                                         *)
(* Python values are represented as follows.                               *)
(*   - a str is a sequence of characters, each a string;                   *)
(*   - a dict parsed from JSON is a record with a field "has" holding the  *)
(*     set of keys the dict really has; reading a key outside "has" is a   *)
(*     KeyError;                                                           *)
(*   - None is the string "None" for image data and the record NoneOutline *)
(*     for the outline;                                                    *)
(*   - the images dict is a function whose DOMAIN is its key set (slide    *)
(*     indices are 0-based as in enumerate()).                             *)
(***************************************************************************)
EXTENDS Integers, Sequences, FiniteSets, TLC

\* ------------------------------------------------------------------ bounds
MaxSlides == 2
MaxPoints == 2
MaxParts  == 2

\* ------------------------------------------------------- str.strip, line 51
\* the backquote character (U+0060), written by name
Bq          == "BACKQUOTE"
Backtick    == {Bq}
TagChars    == {"j", "s", "o", "n"}
\* str.strip() with no argument strips whitespace
Whitespace  == {" ", "\n", "\t"}

RECURSIVE LStrip(_, _)
LStrip(s, chars) ==
    IF s # <<>> /\ Head(s) \in chars THEN LStrip(Tail(s), chars) ELSE s

RECURSIVE RStrip(_, _)
RStrip(s, chars) ==
    IF s # <<>> /\ s[Len(s)] \in chars
    THEN RStrip(SubSeq(s, 1, Len(s) - 1), chars)
    ELSE s

\* str.strip(chars): removes leading and trailing characters that are in chars
StripChars(s, chars) == RStrip(LStrip(s, chars), chars)

StripBackticks(s) == StripChars(s, Backtick)
StripTag(s)       == StripChars(s, TagChars)
StripSpace(s)     == StripChars(s, Whitespace)

\* the three strip calls of line 51, in the order the code applies them
CleanText(s) == StripSpace(StripTag(StripBackticks(s)))

\* ------------------------------------------------------ json.loads, line 52
\* The text of a JSON object is "{" members "}".  The character "#" stands
\* for a non-empty list of members; which dict they denote is the obj that
\* comes with the response.  json.loads accepts whitespace around the value
\* and nothing else.
ObjectText  == << "{", "#", "}" >>
EmptyObject == << "{", "}" >>

JsonValid(s) == StripSpace(s) \in {ObjectText, EmptyObject}

\* ------------------------------------------------------------- the outline
SlideFields   == {"slide_title", "key_points", "image_prompt"}
OutlineFields == {"title", "slides"}

NoText == [text |-> "", n |-> 0]
DeckTitle == [text |-> "deck", n |-> 0]
SlideTitleOf(n) == [text |-> "slide", n |-> n]

KeyPointsOf(len) == [p \in 1..len |-> p]

\* a slide object: the keys it has, and the values of those keys
SlideObjs(n, len) ==
    { [has |-> h, slide_title |-> SlideTitleOf(n),
       key_points |-> IF "key_points" \in h THEN KeyPointsOf(len) ELSE <<>>,
       image_prompt |-> n] :
         h \in SUBSET SlideFields }

\* the "slides" arrays of cnt slide objects, each with len key points
SlideSeqs(cnt, len) ==
    { s \in [1..cnt -> UNION {SlideObjs(n, len) : n \in 1..cnt}] :
        \A n \in 1..cnt : s[n] \in SlideObjs(n, len) }

AllSlideSeqs ==
    UNION {SlideSeqs(cnt, len) : cnt \in 0..MaxSlides, len \in 0..MaxPoints}

NoneOutline  == [isNone |-> TRUE,  has |-> {}, title |-> NoText, slides |-> <<>>]
EmptyOutline == [isNone |-> FALSE, has |-> {}, title |-> NoText, slides |-> <<>>]

\* the dicts a non-empty JSON object can denote
Outlines ==
    { [isNone |-> FALSE, has |-> h, title |-> DeckTitle,
       slides |-> IF "slides" \in h THEN s ELSE <<>>] :
         h \in (SUBSET OutlineFields) \ {{}},
         s \in AllSlideSeqs }

\* json.loads of a text json.loads accepts
JsonValue(s, obj) == IF StripSpace(s) = EmptyObject THEN EmptyOutline ELSE obj

\* the check written as "is not None"
Truthy_NotNone(o) == ~o.isNone

\* Python truth value of the outline: None and {} are false
Truthy(o) == ~o.isNone /\ o.has # {}

NumSlides(o) == Len(o.slides)

\* --------------------------------------------------- the service responses
Fence == << Bq, Bq, Bq >>
Tag   == << "j", "s", "o", "n" >>
Pads  == { <<>>, << " " >>, << "\n" >> }

\* what the text model may answer: a JSON object, an empty object, a
\* truncated object, or prose
Bodies == { ObjectText, EmptyObject, << "{", "#" >>, << "#" >> }

\* candidates[0].content.parts[0].text of the text response
RawTexts ==
    { lead \o open \o tag \o p1 \o body \o p2 \o close \o trail :
        lead \in Pads, open \in {<<>>, Fence}, tag \in {<<>>, Tag},
        p1 \in Pads, body \in Bodies, p2 \in Pads,
        close \in {<<>>, Fence}, trail \in Pads }

\* generate_content for the outline: it raises, or answers without a
\* candidate, or answers with a text
TextResponses ==
    { [kind |-> k, text |-> <<>>] : k \in {"raise", "no_candidates"} }
    \cup { [kind |-> "text", text |-> t] : t \in RawTexts }

\* a content part: inline_data is None (inline = FALSE) or a blob whose
\* data is bytes or None
ImageData == {"d1", "d2"}
Parts ==
    { [inline |-> FALSE, data |-> "None"] }
    \cup { [inline |-> TRUE, data |-> d] : d \in ImageData \cup {"None"} }

PartSeqs == UNION { [1..len -> Parts] : len \in 0..MaxParts }

\* generate_content for an image: it raises, or answers without a candidate,
\* or with a candidate without content, or with content parts
ImageResponses ==
    { [kind |-> k, parts |-> <<>>] :
        k \in {"raise", "no_candidates", "no_content"} }
    \cup { [kind |-> "parts", parts |-> ps] : ps \in PartSeqs }

NoResponse == [kind |-> "none", parts |-> <<>>]

VARIABLES
    pc,          \* where the run is
    outline,     \* presentation_outline
    images,      \* the images dict of generate_presentation_slide_images
    i,           \* loop index of generate_presentation_slide_images
    prs,         \* the Presentation under construction: its slides
    j,           \* loop index of create_presentation_file
    file,        \* the slides of the saved file, <<>> while none is saved
    success,     \* "Success! File saved as" has been printed
    raised,      \* the exception that reached the top level, or "none"
    log,         \* history: the external actions in the order they happened
    textResult,  \* history: how the outline request ended
    lastResp,    \* history: the image response handled last
    failedIdx,   \* history: the slide indices whose image request failed
    raw,         \* the response text under cleaning
    text         \* the text after the cleaning steps applied so far

vars == << pc, outline, images, i, prs, j, file, success, raised, log,
           textResult, lastResp, failedIdx, raw, text >>

Event(op, idx) == [op |-> op, idx |-> idx]

\* an uncaught exception ends the run
Crash(exc) == pc' = "crashed" /\ raised' = exc

\* ---------------------------------------------------------------- Init
Init ==
    /\ pc = "main157"
    /\ outline = NoneOutline
    /\ images = <<>>
    /\ i = 0
    /\ prs = <<>>
    /\ j = 0
    /\ file = <<>>
    /\ success = FALSE
    /\ raised = "none"
    /\ log = <<>>
    /\ textResult = "none"
    /\ lastResp = NoResponse
    /\ failedIdx = {}
    /\ raw = <<>>
    /\ text = <<>>

\* ------------------------------------- generate_presentation_slide_text
\* the except branch returning a default outline instead of None
OutlineOnFailure_Default ==
    [isNone |-> FALSE, has |-> OutlineFields, title |-> DeckTitle,
     slides |-> <<>>]

\* the value the except branch returns
OutlineOnFailure == NoneOutline

\* line 45: the request is sent
TextRequest ==
    /\ pc = "main157"
    /\ log' = Append(log, Event("text", 0))
    /\ pc' = "text_wait"
    /\ UNCHANGED << outline, images, i, prs, j, file, success, raised,
                    textResult, lastResp, failedIdx, raw, text >>

\* lines 45-51: the call raises, or candidates[0] raises IndexError, and the
\* except branch returns; or the text arrives and is cleaned
TextReturn ==
    /\ pc = "text_wait"
    /\ \E r \in TextResponses :
         IF r.kind # "text"
         THEN /\ outline' = OutlineOnFailure
              /\ textResult' = "raised"
              /\ pc' = "main159"
              /\ UNCHANGED << raw, text >>
         ELSE /\ raw' = r.text
              /\ text' = CleanText(r.text)
              /\ pc' = "json52"
              /\ UNCHANGED << outline, textResult >>
    /\ UNCHANGED << images, i, prs, j, file, success, raised, log,
                    lastResp, failedIdx >>

\* lines 52-55: json.loads returns the value, or raises and the except
\* branch returns
ParseJson ==
    /\ pc = "json52"
    /\ IF JsonValid(text)
       THEN /\ \E obj \in Outlines : outline' = JsonValue(text, obj)
            /\ textResult' = "parsed"
       ELSE /\ outline' = OutlineOnFailure
            /\ textResult' = "badjson"
    /\ pc' = "main159"
    /\ raw' = <<>>
    /\ text' = <<>>
    /\ UNCHANGED << images, i, prs, j, file, success, raised, log,
                    lastResp, failedIdx >>

\* ------------------------------------------------------------- __main__
\* line 159: if presentation_outline:
MainCheck ==
    /\ pc = "main159"
    /\ pc' = IF Truthy(outline) THEN "img62" ELSE "done"
    /\ UNCHANGED << outline, images, i, prs, j, file, success, raised, log,
                    textResult, lastResp, failedIdx, raw, text >>

\* ----------------------------------- generate_presentation_slide_images
\* images[k] = v
Put(m, k, v) == [x \in DOMAIN m \cup {k} |-> IF x = k THEN v ELSE m[x]]

\* the scan without its break: the last part with inline data wins
RECURSIVE ScanParts_Last(_)
ScanParts_Last(ps) ==
    IF ps = <<>> THEN "None"
    ELSE IF ps[Len(ps)].inline THEN ps[Len(ps)].data
    ELSE ScanParts_Last(SubSeq(ps, 1, Len(ps) - 1))

\* lines 74-79: the data of the first part with inline data, else None
RECURSIVE ScanParts(_)
ScanParts(ps) ==
    IF ps = <<>> THEN "None"
    ELSE IF Head(ps).inline THEN Head(ps).data
    ELSE ScanParts(Tail(ps))

\* the response makes the try block raise
ImageFails(resp) == resp.kind # "parts"

\* lines 59-62: images = {} and the loop is entered over outline['slides']
ImagesBegin ==
    /\ pc = "img62"
    /\ IF "slides" \in outline.has
       THEN /\ images' = <<>>
            /\ i' = 0
            /\ pc' = "img_loop"
            /\ UNCHANGED raised
       ELSE /\ Crash("KeyError")
            /\ UNCHANGED << images, i >>
    /\ UNCHANGED << outline, prs, j, file, success, log, textResult,
                    lastResp, failedIdx, raw, text >>

\* lines 62-66: the next slide is taken, its image_prompt and slide_title
\* are read, and the request is sent
ImageRequest ==
    /\ pc = "img_loop"
    /\ i < NumSlides(outline)
    /\ IF {"image_prompt", "slide_title"} \subseteq outline.slides[i + 1].has
       THEN /\ log' = Append(log, Event("image", i))
            /\ pc' = "img_wait"
            /\ UNCHANGED raised
       ELSE /\ Crash("KeyError")
            /\ UNCHANGED log
    /\ lastResp' = NoResponse
    /\ UNCHANGED << outline, images, i, prs, j, file, success, textResult,
                    failedIdx, raw, text >>

\* the except branch re-raising instead of recording None
OnImageError_Propagate ==
    /\ Crash("ServiceError")
    /\ failedIdx' = failedIdx \cup {i}
    /\ UNCHANGED << images, i >>

\* lines 80-82: the except branch of the loop body
OnImageError ==
    /\ images' = Put(images, i, "None")
    /\ failedIdx' = failedIdx \cup {i}
    /\ i' = i + 1
    /\ pc' = "img_loop"
    /\ UNCHANGED raised

\* the scan without its else branch: nothing is recorded when no part
\* carries data
OnImageResponse_NoElse(resp) ==
    /\ images' = IF ScanParts(resp.parts) = "None" THEN images
                 ELSE Put(images, i, ScanParts(resp.parts))
    /\ i' = i + 1
    /\ pc' = "img_loop"
    /\ UNCHANGED << failedIdx, raised >>

\* lines 74-79: the parts are scanned
OnImageResponse(resp) ==
    /\ images' = Put(images, i, ScanParts(resp.parts))
    /\ i' = i + 1
    /\ pc' = "img_loop"
    /\ UNCHANGED << failedIdx, raised >>

\* lines 66-82: the response is handled
ImageReturn ==
    /\ pc = "img_wait"
    /\ \E resp \in ImageResponses :
         /\ lastResp' = resp
         /\ IF ImageFails(resp) THEN OnImageError ELSE OnImageResponse(resp)
    /\ UNCHANGED << outline, prs, j, file, success, log, textResult,
                    raw, text >>

\* the loop ending one slide early
ImagesEnd_Early ==
    /\ pc = "img_loop"
    /\ i >= NumSlides(outline) - 1
    /\ pc' = "asm_title"
    /\ lastResp' = NoResponse
    /\ UNCHANGED << outline, images, i, prs, j, file, success, raised, log,
                    textResult, failedIdx, raw, text >>

\* line 84 and line 161: the loop is over, images is returned and
\* create_presentation_file is called
ImagesEnd ==
    /\ pc = "img_loop"
    /\ i = NumSlides(outline)
    /\ pc' = "asm_title"
    /\ lastResp' = NoResponse
    /\ UNCHANGED << outline, images, i, prs, j, file, success, raised, log,
                    textResult, failedIdx, raw, text >>

\* --------------------------------------------- create_presentation_file
\* line 139: the literal the code puts before each key point.  Its
\* characters are U+00E2 U+20AC U+00A2 and a space.
BulletPrefix == "U+00E2 U+20AC U+00A2 SPACE"

EmptyParagraph == [prefix |-> "", point |-> 0]

\* lines 123-125 and 133-134: the text frame of a new text box holds one
\* empty paragraph, the paragraphs[0] that line 125 reads
NewTextFrame == << EmptyParagraph >>

\* lines 137-142: add_paragraph() appends a paragraph for each key point
AddParagraphs(frame, points) ==
    frame \o [n \in 1..Len(points) |->
                 [prefix |-> BulletPrefix, point |-> points[n]]]

\* the lookup with a 1-based index
PictureFor_Shifted(imgs, idx) ==
    IF (idx + 1) \in DOMAIN imgs /\ imgs[idx + 1] # "None"
    THEN imgs[idx + 1] ELSE "None"

\* lines 145-147: the bytes of the picture to add for slide idx, "None" when
\* no picture is added: i in images and images[i] is not None
PictureFor(imgs, idx) ==
    IF idx \in DOMAIN imgs /\ imgs[idx] # "None" THEN imgs[idx] ELSE "None"

\* a slide of the document: its layout, its title text, the paragraphs of
\* its body text box, and the bytes of its picture shape ("None": no
\* picture shape)
Slide(layout, title, paragraphs, picture) ==
    [layout |-> layout, title |-> title, paragraphs |-> paragraphs,
     picture |-> picture]

\* the exception caught and reported inside create_presentation_file
AssemblyRaises_Caught(exc) == pc' = "done" /\ raised' = exc

\* lines 86-150 hold no try: an exception raised in create_presentation_file
\* leaves it, and lines 157-161 hold none either
AssemblyRaises(exc) == Crash(exc)

\* lines 88-108: the Presentation is created, the title slide is added and
\* the loop over outline['slides'] is entered
AssembleTitle ==
    /\ pc = "asm_title"
    /\ log' = Append(log, Event("build", 0))
    /\ \E fault \in {"none", "render"} :
         IF fault = "render"
         THEN /\ prs' = <<>>
              /\ AssemblyRaises("RenderError")
         ELSE IF "title" \notin outline.has
         THEN /\ prs' = << Slide("title", NoText, <<>>, "None") >>
              /\ AssemblyRaises("KeyError")
         ELSE IF "slides" \notin outline.has
         THEN /\ prs' = << Slide("title", outline.title, <<>>, "None") >>
              /\ AssemblyRaises("KeyError")
         ELSE /\ prs' = << Slide("title", outline.title, <<>>, "None") >>
              /\ pc' = "asm_loop"
              /\ UNCHANGED raised
    /\ j' = 0
    /\ UNCHANGED << outline, images, i, file, success, textResult,
                    lastResp, failedIdx, raw, text >>

\* lines 108-147: one content slide
AssembleSlide ==
    /\ pc = "asm_loop"
    /\ j < NumSlides(outline)
    /\ LET sd == outline.slides[j + 1]
           body == AddParagraphs(NewTextFrame, sd.key_points)
       IN \E fault \in {"none", "add_slide", "add_picture"} :
            IF fault = "add_slide"
            THEN /\ AssemblyRaises("RenderError")
                 /\ UNCHANGED << prs, j >>
            ELSE IF "slide_title" \notin sd.has
            THEN /\ prs' = Append(prs, Slide("content", NoText, <<>>, "None"))
                 /\ AssemblyRaises("KeyError")
                 /\ UNCHANGED j
            ELSE IF "key_points" \notin sd.has
            THEN /\ prs' = Append(prs, Slide("content", sd.slide_title,
                                             NewTextFrame, "None"))
                 /\ AssemblyRaises("KeyError")
                 /\ UNCHANGED j
            ELSE IF PictureFor(images, j) # "None" /\ fault = "add_picture"
            THEN /\ prs' = Append(prs, Slide("content", sd.slide_title,
                                             body, "None"))
                 /\ AssemblyRaises("RenderError")
                 /\ UNCHANGED j
            ELSE /\ prs' = Append(prs,
                        Slide("content", sd.slide_title, body,
                              PictureFor(images, j)))
                 /\ j' = j + 1
                 /\ UNCHANGED << pc, raised >>
    /\ UNCHANGED << outline, images, i, file, success, log, textResult,
                    lastResp, failedIdx, raw, text >>

\* lines 149-150: prs.save and the success message
Save ==
    /\ pc = "asm_loop"
    /\ j = NumSlides(outline)
    /\ log' = Append(log, Event("save", 0))
    /\ \E fault \in {"none", "io"} :
         IF fault = "io"
         THEN /\ AssemblyRaises("IOError")
              /\ UNCHANGED << file, success >>
         ELSE /\ file' = prs
              /\ success' = TRUE
              /\ pc' = "done"
              /\ UNCHANGED raised
    /\ UNCHANGED << outline, images, i, prs, j, textResult, lastResp,
                    failedIdx, raw, text >>

\* ------------------------------------------------------ specifications
Next ==
    \/ TextRequest
    \/ TextReturn
    \/ ParseJson
    \/ MainCheck
    \/ ImagesBegin
    \/ ImageRequest
    \/ ImageReturn
    \/ ImagesEnd
    \/ AssembleTitle
    \/ AssembleSlide
    \/ Save

\* the run of the __main__ block
Spec == Init /\ [][Next]_vars

\* create_presentation_file called on its own, with any outline dict and any
\* images dict whose keys are slide indices of the outline
ImageMaps(cnt) ==
    UNION { [keys -> ImageData \cup {"None"}] : keys \in SUBSET (0..(cnt - 1)) }

InitAssemble ==
    /\ pc = "asm_title"
    /\ outline \in Outlines
    /\ images \in ImageMaps(NumSlides(outline))
    /\ i = 0
    /\ prs = <<>>
    /\ j = 0
    /\ file = <<>>
    /\ success = FALSE
    /\ raised = "none"
    /\ log = <<>>
    /\ textResult = "none"
    /\ lastResp = NoResponse
    /\ failedIdx = {}
    /\ raw = <<>>
    /\ text = <<>>

NextAssemble ==
    \/ AssembleTitle
    \/ AssembleSlide
    \/ Save

SpecAssemble == InitAssemble /\ [][NextAssemble]_vars


\* ------------------------------------------------- vocabulary of the claims
Values == ImageData \cup {"None"}

Requested(k) == \E n \in 1..Len(log) : log[n] = Event("image", k)
Built == \E n \in 1..Len(log) : log[n].op = "build"
SaveCalls == {n \in 1..Len(log) : log[n].op = "save"}
Ended == pc \in {"done", "crashed"}

Min(S) == CHOOSE x \in S : \A y \in S : x <= y

IsPrefix(a, b) == Len(a) <= Len(b) /\ \A n \in 1..Len(a) : a[n] = b[n]

\* every slide carries slide_title and image_prompt
SlidesCarryPrompts(o) ==
    /\ "slides" \in o.has
    /\ \A n \in 1..Len(o.slides) :
         {"slide_title", "image_prompt"} \subseteq o.slides[n].has

\* no required field is omitted
OutlineComplete(o) ==
    /\ o.has = OutlineFields
    /\ \A n \in 1..Len(o.slides) : o.slides[n].has = SlideFields

\* a JSON object between code fences, tagged or not, with whitespace around
\* the fences and around the object
FencedTexts ==
    { lead \o Fence \o tag \o p1 \o ObjectText \o p2 \o Fence \o trail :
        lead \in Pads, tag \in {<<>>, Tag}, p1 \in Pads, p2 \in Pads,
        trail \in Pads }

\* ------------------------------------------------------------------- C1
\* C1: for an outline whose slides all carry slide_title and image_prompt,
\* generate_presentation_slide_images never raises, during the loop the keys
\* of images are exactly the indices handled so far, and the map it returns
\* has exactly the keys 0..N-1, each value image bytes or None.
C1_CompleteImageMap ==
    /\ pc \in {"img_loop", "img_wait"} => DOMAIN images = 0..(i - 1)
    /\ (pc = "asm_title" \/ Built) =>
          /\ DOMAIN images = 0..(NumSlides(outline) - 1)
          /\ \A k \in DOMAIN images : images[k] \in Values
    /\ (SlidesCarryPrompts(outline) /\ ~Built) => pc # "crashed"

C1_Witness ==
    /\ pc = "asm_title"
    /\ NumSlides(outline) = 2
    /\ failedIdx = {0}
    /\ images[1] \in ImageData

\* ------------------------------------------------------------------- C2
C2_Inv ==
    /\ \A k \in failedIdx : k \in DOMAIN images /\ images[k] = "None"
    /\ raised # "ServiceError"
    /\ (failedIdx # {} /\ Built) =>
          \A k \in 0..(NumSlides(outline) - 1) : Requested(k)

C2_Step ==
    /\ (pc = "img_wait" /\ lastResp'.kind \in {"raise", "no_candidates", "no_content"})
          => /\ pc' = "img_loop"
             /\ i' = i + 1
             /\ images' = Put(images, i, "None")
             /\ raised' = "none"
    /\ (pc = "img_loop" /\ i = NumSlides(outline)) => pc' = "asm_title"

\* C2: a failed image request for slide i is recorded as None for i, never
\* reaches the caller, and the loop goes on with slide i + 1; once the loop
\* is over the run goes on to create_presentation_file, and by then every
\* slide has been requested.
C2_FailureAbsorbed == []C2_Inv /\ [][C2_Step]_vars

C2_Witness ==
    /\ pc = "done"
    /\ success
    /\ NumSlides(outline) = 2
    /\ 0 \in failedIdx

\* ------------------------------------------------------------------- C3
C3_Inv ==
    textResult \in {"raised", "badjson"} =>
        /\ outline = NoneOutline
        /\ pc \in {"main159", "done"}
        /\ Len(log) = 1
        /\ prs = <<>>
        /\ file = <<>>
        /\ ~success
        /\ raised = "none"

C3_Step ==
    (pc = "json52" /\ StripSpace(text) \notin {ObjectText, EmptyObject})
        => textResult' = "badjson" /\ outline' = NoneOutline

\* C3: when the text request raises or the cleaned text is not valid JSON,
\* the outline is None, and the run ends with the text request as its only
\* external action: no image request, no document, no file.
C3_OutlineFailureHalts == []C3_Inv /\ [][C3_Step]_vars

C3_Witness ==
    /\ pc = "done"
    /\ textResult = "badjson"
    /\ Len(log) = 1

\* ------------------------------------------------------------------- C4
\* C4: every JSON object wrapped in code fences, tagged json or not, with
\* any surrounding whitespace, is cleaned to exactly the JSON object.
C4_FencedOutlineParses ==
    (pc = "json52" /\ raw \in FencedTexts) => text = ObjectText

\* ------------------------------------------------------------------- C5
\* C5: the file create_presentation_file saves has N + 1 slides, the title
\* slide then the content slides in outline order, and content slide i has a
\* picture exactly when images has a key i with a value that is not None
\* (the picture is then images[i]); a missing key raises nothing.
C5_DocumentShape ==
    /\ file # <<>> =>
          /\ Len(file) = NumSlides(outline) + 1
          /\ file[1].layout = "title"
          /\ \A n \in 1..NumSlides(outline) :
                LET present == (n - 1) \in DOMAIN images /\ images[n - 1] # "None"
                IN /\ file[n + 1].layout = "content"
                   /\ file[n + 1].title = outline.slides[n].slide_title
                   /\ (file[n + 1].picture # "None") <=> present
                   /\ present => file[n + 1].picture = images[n - 1]
    /\ OutlineComplete(outline) => raised # "KeyError"

C5_Witness ==
    /\ file # <<>>
    /\ NumSlides(outline) = 2
    /\ DOMAIN images = {1}
    /\ images[1] = "d1"

\* ------------------------------------------------------------------- C6
\* C6: the body text box of every content slide holds exactly one paragraph
\* per key point, in order, each the bullet prefix followed by the key point.
C6_OneParagraphPerKeyPoint ==
    \A n \in 1..j :
        LET ps == prs[n + 1].paragraphs
            kp == outline.slides[n].key_points
        IN /\ Len(ps) = Len(kp)
           /\ \A m \in 1..Len(ps) :
                 /\ m <= Len(kp)
                 /\ ps[m] = [prefix |-> BulletPrefix, point |-> kp[m]]

\* ------------------------------------------------------------------- C7
C7_Inv ==
    /\ success => pc = "done" /\ raised = "none" /\ file = prs /\ file # <<>>
    /\ raised # "none" => pc = "crashed" /\ ~success /\ file = <<>>
    /\ Cardinality(SaveCalls) <= 1

\* C7: an exception raised in create_presentation_file ends the run there:
\* it reaches the top level, no step follows it (no further slide, no second
\* save), and success is printed only when the save completed.
C7_AssemblyErrorIsTerminal == []C7_Inv /\ [][raised = "none"]_vars

C7_Witness ==
    /\ pc = "crashed"
    /\ raised = "RenderError"
    /\ NumSlides(outline) = 2
    /\ Len(prs) = 2

\* ------------------------------------------------------------------- C8
Canonical(cnt) ==
    << Event("text", 0) >>
    \o [k \in 1..cnt |-> Event("image", k - 1)]
    \o << Event("build", 0), Event("save", 0) >>

\* C8: the external actions happen in the order text request, image request
\* 0, 1, ..., N-1, construction, save, none twice; nothing follows the text
\* request unless an outline was obtained; request k is sent only after all
\* earlier ones have ended; construction starts only when all have ended.
C8_Order ==
    /\ IsPrefix(log, Canonical(NumSlides(outline)))
    /\ pc # "main157" => Len(log) >= 1
    /\ (outline.isNone \/ outline.has = {}) => Len(log) <= 1
    /\ \A k \in 0..(NumSlides(outline) - 1) :
          Requested(k) => \A m \in 0..(k - 1) : m \in DOMAIN images
    /\ Built => pc # "img_wait" /\ DOMAIN images = 0..(NumSlides(outline) - 1)
    /\ success => log = Canonical(NumSlides(outline))

C8_Witness ==
    /\ success
    /\ NumSlides(outline) = 2
    /\ Len(log) = 5

\* ------------------------------------------------------------------- C9
\* C9: the value recorded for a slide is the data of the first part, in
\* order, that has inline data, whatever the later parts hold, and None when
\* no part has inline data or there is no part.
C9_FirstInlinePart ==
    (pc = "img_loop" /\ lastResp.kind = "parts") =>
        LET ps == lastResp.parts
            withData == {n \in 1..Len(ps) : ps[n].inline}
        IN images[i - 1] =
              IF withData = {} THEN "None" ELSE ps[Min(withData)].data

C9_Witness ==
    /\ pc = "img_loop"
    /\ lastResp.kind = "parts"
    /\ Len(lastResp.parts) = 2
    /\ lastResp.parts[1] = [inline |-> TRUE, data |-> "d1"]
    /\ lastResp.parts[2] = [inline |-> TRUE, data |-> "d2"]

\* ------------------------------------------------------------------ C10
\* C10 as stated: whenever the parsed outline omits a required field, the
\* run ends with an exception at the top level and no file saved.
C10_MissingFieldAlwaysRaises ==
    (textResult = "parsed" /\ ~OutlineComplete(outline) /\ Ended) =>
        /\ pc = "crashed"
        /\ raised \in {"KeyError", "RenderError"}
        /\ file = <<>>

\* where a KeyError is raised: at the first read of the omitted field
SurfacesAtFirstAccess ==
    LET cnt == NumSlides(outline)
        noPrompt == {n \in 1..cnt :
                       ~({"slide_title", "image_prompt"} \subseteq outline.slides[n].has)}
        noPoints == {n \in 1..cnt : "key_points" \notin outline.slides[n].has}
    IN IF "slides" \notin outline.has
       THEN Len(log) = 1 /\ prs = <<>>
       ELSE IF noPrompt # {}
       THEN /\ ~Built
            /\ i = Min(noPrompt) - 1
            /\ DOMAIN images = 0..(i - 1)
            /\ Len(log) = i + 1
       ELSE IF "title" \notin outline.has
       THEN Built /\ Len(prs) = 1 /\ Len(log) = cnt + 2
       ELSE /\ noPoints # {}
            /\ j = Min(noPoints) - 1
            /\ Len(prs) = j + 2

\* C10 amended: a parsed outline is never None; a non-empty object that
\* omits a required field ends the run with an exception at the top level
\* (the KeyError of the first read of the field, unless construction failed
\* before that read), nothing recorded for the slide, no file saved; the
\* empty object ends the run at line 159 with no exception, no request
\* after the text request and no file.
C10_MissingFieldSurfacesLater ==
    /\ textResult = "parsed" => ~outline.isNone
    /\ (textResult = "parsed" /\ outline.has # {} /\ ~OutlineComplete(outline) /\ Ended) =>
          /\ pc = "crashed"
          /\ raised \in {"KeyError", "RenderError"}
          /\ file = <<>>
          /\ ~success
    /\ (textResult = "parsed" /\ outline.has = {} /\ Ended) =>
          /\ pc = "done"
          /\ raised = "none"
          /\ Len(log) = 1
          /\ prs = <<>>
          /\ file = <<>>
    /\ raised = "KeyError" => SurfacesAtFirstAccess

C10_Witness ==
    /\ pc = "crashed"
    /\ raised = "KeyError"
    /\ Built
    /\ NumSlides(outline) = 2
    /\ "key_points" \notin outline.slides[2].has
    /\ Len(prs) = 3

====
